---- MODULE Spec2Model ----
(***************************************************************************)
(* Verification model of the layer-composition core of thinc:              *)
(*   thinc/layers/chain.py              chain, forward, backprop, init     *)
(*   thinc/neural/_classes/layernorm.py LayerNorm                          *)
(*   thinc/shims/tensorflow.py          TensorFlowShim                     *)
(***************************************************************************)
EXTENDS Integers, Sequences, FiniteSets, TLC

\* ------------------------------------------------------------------------
\* Bounds of the model
\* ------------------------------------------------------------------------
NumLeaves == 3      \* leaf layers that exist before any chain is built
MaxArgs == 3        \* positional arguments of one chain() call
MaxWidth == 2       \* widths 1..MaxWidth
MaxPasses == 2      \* forward passes whose closures are kept
MaxCalls == 2       \* chain() and initialize() calls of one run
MaxBatch == 2       \* rows of a batch given to LayerNorm
MaxUpdates == 1     \* backward passes through one LayerNorm
MaxShims == 3       \* TensorFlowShim objects
MaxWeight == 2      \* weight values 0..MaxWeight of a wrapped model

\* ------------------------------------------------------------------------
\* Model objects: dimensions
\* ------------------------------------------------------------------------
\* A dimension is absent (key not registered), None (registered, unset) or a
\* positive width.
Absent == -1
None == 0

Leaves == 1..NumLeaves
ChainIds == (NumLeaves + 1)..(NumLeaves + MaxCalls)
Ids == Leaves \cup ChainIds
Widths == 1..MaxWidth
DimValues == {Absent, None} \cup Widths

\* A sample array is modelled by its shape <<rows, width>>; no sample is <<>>.
NoSample == << >>
Samples == {<<1, w>> : w \in Widths}

\* util.get_width: size of the last axis of a sample
get_width(S) == S[Len(S)]

VARIABLES
    ncalls,      \* chain() and initialize() calls made so far
    nchains,     \* number of composites created so far
    layers,      \* layers[m]: the sublayer list of composite m
    dims,        \* dims[m]: the registered dimensions nI, nO of model m
    lastChain,   \* the chain() call just made: arguments, result, prior list
    lastInit,    \* the initialize() call just made on a composite
    passes,      \* forward passes: calls made, output, collected closures
    lastBack,    \* the last invocation of a backward closure
    ln,          \* the LayerNorm object: nO, G, b, d_G, d_b, optimizer steps
    lnpc,        \* where the LayerNorm is: construction, forward, backward
    lnpass,      \* what the pending backward closure of LayerNorm captured
    nshims,      \* number of TensorFlowShim objects created so far
    shims,       \* shims[s]: the wrapped model _model and the kept gradients
    keras,       \* keras[k]: the weights and architecture of a wrapped model
    lastShim     \* the last call on a shim: what it saw before and after

chainVars == <<ncalls, nchains, layers, dims, lastChain, lastInit, passes, lastBack>>
lnVars == <<ln, lnpc, lnpass>>
shimVars == <<nshims, shims, keras, lastShim>>
vars == <<chainVars, lnVars, shimVars>>

\* Model.has_dim: True when set, None when registered but unset, False when
\* the name is not registered
has_dim(d, m, name) ==
    IF d[m][name] = Absent THEN "False"
    ELSE IF d[m][name] # None THEN "True"
    ELSE "None"

\* Model.get_dim (only called where has_dim is True)
get_dim(d, m, name) == d[m][name]

\* Model.set_dim
set_dim(d, m, name, value) == [d EXCEPT ![m][name] = value]

\* layer._func is forward: the model is a composite built by chain()
FuncIsForward(m) == m \in ChainIds

Exists(m) == m \in Leaves \/ (m \in ChainIds /\ m <= NumLeaves + nchains)

Range(s) == {s[i] : i \in 1..Len(s)}

\* models reachable from m through sublayer lists (m included)
RECURSIVE Reach(_, _)
Reach(L, m) ==
    IF m \in Leaves THEN {m}
    ELSE {m} \cup UNION {Reach(L, L[m][i]) : i \in 1..Len(L[m])}

\* ------------------------------------------------------------------------
\* chain.init and Model.initialize
\* ------------------------------------------------------------------------
\* initialize() of a layer that is not a composite: a layer with registered
\* but unset widths takes them from the samples it is given
LeafInitialize(d, m, X, Y) ==
    LET d1 == IF X # NoSample /\ has_dim(d, m, "nI") = "None"
              THEN set_dim(d, m, "nI", get_width(X)) ELSE d
    IN IF Y # NoSample /\ has_dim(d1, m, "nO") = "None"
       THEN set_dim(d1, m, "nO", get_width(Y)) ELSE d1

\* the shape of layer.predict(X) for a layer that is not a composite
LeafPredict(d, m, X) ==
    IF X # NoSample /\ has_dim(d, m, "nO") = "True"
    THEN <<X[1], get_dim(d, m, "nO")>> ELSE X

\* chain.py:64-68: the width the reverse walk starts from
StartWidth(d, m, Y) ==
    IF Y # NoSample THEN get_width(Y)
    ELSE IF has_dim(d, m, "nO") = "True" THEN get_dim(d, m, "nO")
    ELSE None

\* chain.py:72: the walk goes on to the previous sublayer
WalkContinues(d, layer) == has_dim(d, layer, "nI") = "True"

\* chain.py:70: the sublayer's nO is to be set
WalkSetsAlways(d, layer, nO) == nO # None
WalkSets(d, layer, nO) == nO # None /\ has_dim(d, layer, "nO") = "None"

\* chain.py:69-75: the reverse walk from sublayer i down, with target nO
RECURSIVE WalkFrom(_, _, _, _)
WalkFrom(d, ls, i, nO) ==
    IF i = 0 THEN d
    ELSE LET layer == ls[i]
             d1 == IF WalkSets(d, layer, nO)
                   THEN set_dim(d, layer, "nO", nO) ELSE d
         IN IF WalkContinues(d1, layer)
            THEN WalkFrom(d1, ls, i - 1, get_dim(d1, layer, "nI"))
            ELSE d1

\* chain.py:63-75: the reverse walk of init over the sublayers of m
ReverseWalk(L, d, m, Y) == WalkFrom(d, L[m], Len(L[m]), StartWidth(d, m, Y))

\* chain.py:58-61 and 80-83: the composite takes nI and nO from its ends
SetEnds(L, d, m) ==
    LET first == L[m][1]
        last == L[m][Len(L[m])]
        d1 == IF has_dim(d, first, "nI") = "True"
              THEN set_dim(d, m, "nI", get_dim(d, first, "nI")) ELSE d
    IN IF has_dim(d1, last, "nO") = "True"
       THEN set_dim(d1, m, "nO", get_dim(d1, last, "nO")) ELSE d1

RECURSIVE Initialize(_, _, _, _, _)
RECURSIVE Predict(_, _, _, _)
RECURSIVE PredictFrom(_, _, _, _, _)
RECURSIVE InitEach(_, _, _, _)
RECURSIVE InitForward(_, _, _, _, _)

\* Model.predict, as far as the shape of the result goes
Predict(L, d, m, X) ==
    IF FuncIsForward(m) THEN PredictFrom(L, d, L[m], 1, X)
    ELSE LeafPredict(d, m, X)

PredictFrom(L, d, ls, i, X) ==
    IF i > Len(ls) THEN X
    ELSE PredictFrom(L, d, ls, i + 1, Predict(L, d, ls[i], X))

\* chain.py:56-57
InitEach(L, d, ls, i) ==
    IF i > Len(ls) THEN d
    ELSE InitEach(L, Initialize(L, d, ls[i], NoSample, NoSample), ls, i + 1)

\* chain.py:76-78: initialize all but the last sublayer, feeding predictions
InitForward(L, d, ls, i, X) ==
    IF i >= Len(ls) THEN [d |-> d, X |-> X]
    ELSE LET d1 == Initialize(L, d, ls[i], X, NoSample)
         IN InitForward(L, d1, ls, i + 1, Predict(L, d1, ls[i], X))

\* chain.py:50-83
init(L, d, m, X, Y) ==
    IF Len(L[m]) = 0 THEN d
    ELSE IF X = NoSample /\ Y = NoSample
    THEN SetEnds(L, InitEach(L, d, L[m], 1), m)
    ELSE LET walked == ReverseWalk(L, d, m, Y)
             r == InitForward(L, walked, L[m], 1, X)
             d3 == Initialize(L, r.d, L[m][Len(L[m])], r.X, Y)
         IN SetEnds(L, d3, m)

\* Model.initialize: runs the model's init function
Initialize(L, d, m, X, Y) ==
    IF FuncIsForward(m) THEN init(L, d, m, X, Y)
    ELSE LeafInitialize(d, m, X, Y)

\* ------------------------------------------------------------------------
\* chain()
\* ------------------------------------------------------------------------
\* chain.py:15: the first argument is already a composite
FlattensNever(args) == FALSE
Flattens(args) == Len(args) > 0 /\ FuncIsForward(args[1])

\* chain.py:26: the new composite is initialized at once
EagerInit(d, args) ==
    /\ Len(args) > 0
    /\ has_dim(d, args[1], "nI") = "True"
    /\ has_dim(d, args[Len(args)], "nO") = "True"

NoChainCall == [called |-> FALSE, args |-> << >>, result |-> 0,
                before |-> << >>, created |-> FALSE]
NoInitCall == [called |-> FALSE, m |-> 0, X |-> NoSample, Y |-> NoSample,
               walk |-> FALSE, ls |-> << >>, pre |-> << >>, walked |-> << >>]
NoBackCall == [called |-> FALSE, pass |-> 0, dY |-> << >>, calls |-> << >>,
               result |-> << >>]

\* m is a direct sublayer of some composite
Owned(m) == \E c \in ChainIds : m \in Range(layers[c])

\* the argument lists chain() is called with: existing models; a composite
\* exclusively owns its direct sublayers (tree ownership, no sharing), so a
\* model handed over as a sublayer has no owner yet and does not contain the
\* composite it joins; no empty composite is handed over as a sublayer.
\* Unowned leaves with the same dimensions are interchangeable; they are
\* taken in the order of their identities.
ValidArgs(args) ==
    /\ \A i \in 1..Len(args) : Exists(args[i])
    /\ \A i, j \in 1..Len(args) : i # j => args[i] # args[j]
    /\ \A i \in 1..Len(args) :
          (i > 1 \/ ~FuncIsForward(args[1])) =>
              /\ ~Owned(args[i])
              /\ args[i] \in ChainIds => Len(layers[args[i]]) > 0
              /\ i > 1 => args[1] \notin Reach(layers, args[i])
              /\ \A y \in Leaves :
                    (y < args[i] /\ ~Owned(y) /\ dims[y] = dims[args[i]]) =>
                        \E k \in 1..(i - 1) : args[k] = y

\* the models that may be handed over as sublayers, and the argument lists
\* made of a first argument and further unowned models
Free == {m \in Ids : Exists(m) /\ ~Owned(m)}

RECURSIVE Orderings(_, _)
Orderings(S, n) ==
    IF n = 0 THEN {<< >>}
    ELSE {<< >>} \cup
         UNION {{<<x>> \o rest : rest \in Orderings(S \ {x}, n - 1)} : x \in S}

ArgLists ==
    {<< >>} \cup
    UNION {{<<first>> \o rest : rest \in Orderings(Free \ {first}, MaxArgs - 1)} :
            first \in {m \in Ids : Exists(m)}}

ChainCall(args) ==
    /\ ncalls < MaxCalls
    /\ ncalls' = ncalls + 1
    /\ ValidArgs(args)
    /\ IF Flattens(args)
       THEN /\ layers' = [layers EXCEPT ![args[1]] = @ \o Tail(args)]
            /\ UNCHANGED <<nchains, dims>>
            /\ lastChain' = [called |-> TRUE, args |-> args, result |-> args[1],
                             before |-> layers[args[1]], created |-> FALSE]
       ELSE /\ LET model == NumLeaves + nchains + 1
                   L == [layers EXCEPT ![model] = args]
               IN /\ nchains' = nchains + 1
                  /\ layers' = L
                  /\ dims' = IF EagerInit(dims, args)
                             THEN Initialize(L, dims, model, NoSample, NoSample)
                             ELSE dims
                  /\ lastChain' = [called |-> TRUE, args |-> args,
                                   result |-> model,
                                   before |-> IF Len(args) > 0 /\ args[1] \in ChainIds
                                              THEN layers[args[1]] ELSE << >>,
                                   created |-> TRUE]
    /\ lastInit' = NoInitCall
    /\ UNCHANGED <<passes, lastBack>>
    /\ UNCHANGED <<lnVars, shimVars>>

\* model.initialize(X, Y) on a composite
InitializeCall(m, X, Y) ==
    /\ ncalls < MaxCalls
    /\ ncalls' = ncalls + 1
    /\ m \in ChainIds /\ Exists(m)
    /\ dims' = Initialize(layers, dims, m, X, Y)
    /\ lastInit' = [called |-> TRUE, m |-> m, X |-> X, Y |-> Y,
                    walk |-> (Len(layers[m]) > 0 /\ ~(X = NoSample /\ Y = NoSample)),
                    ls |-> layers[m], pre |-> dims,
                    walked |-> ReverseWalk(layers, dims, m, Y)]
    /\ lastChain' = NoChainCall
    /\ UNCHANGED <<nchains, layers, passes, lastBack>>
    /\ UNCHANGED <<lnVars, shimVars>>

\* ------------------------------------------------------------------------
\* chain.forward and the backprop closure it returns
\* ------------------------------------------------------------------------
\* Arrays are modelled by the history of what produced them: an input or a
\* gradient is a one-element sequence, and a layer that is not a composite
\* appends its own identity to what it is given.
Inputs == {<<0>>}
Gradients == {<<0>>}

NoError == "NoError"
NoClosure == [pass |-> 0, layer |-> 0, sub |-> << >>]

Reverse(s) == [i \in 1..Len(s) |-> s[Len(s) + 1 - i]]

\* chain.py:39: the next sublayer is fed the output of this one
NextInputStale(X, Y) == X
NextInput(X, Y) == Y

\* chain.py:47: Y is bound only if the loop body ran
YBoundAlways(ls) == TRUE
YBound(ls) == Len(ls) > 0

\* chain.py:42: the closures are applied last to first
BackOrderForward(callbacks) == callbacks
BackOrder(callbacks) == Reverse(callbacks)

RECURSIVE forward(_, _, _, _, _)
RECURSIVE ForwardLoop(_, _, _, _, _, _, _, _, _)

\* layer(X, is_train=is_train): Model.__call__ runs the layer's forward
\* function; p identifies the forward pass the returned closure belongs to
Call(L, layer, X, is_train, p) ==
    IF FuncIsForward(layer) THEN forward(L, layer, X, is_train, p)
    ELSE [raised |-> NoError, Y |-> Append(X, layer), calls |-> << >>,
          cb |-> [pass |-> p, layer |-> layer, sub |-> << >>]]

\* chain.py:36-47, from sublayer i on
ForwardLoop(L, model, i, X, Y, is_train, p, calls, callbacks) ==
    IF i > Len(L[model])
    THEN IF YBound(L[model])
         THEN [raised |-> NoError, Y |-> Y, calls |-> calls,
               cb |-> [pass |-> p, layer |-> model, sub |-> callbacks]]
         ELSE [raised |-> "UnboundLocalError", Y |-> << >>, calls |-> calls,
               cb |-> NoClosure]
    ELSE LET layer == L[model][i]
             r == Call(L, layer, X, is_train, p)
             entry == [caller |-> model, layer |-> layer, X |-> X,
                       is_train |-> is_train, Y |-> r.Y]
         IN IF r.raised # NoError
            THEN [raised |-> r.raised, Y |-> << >>,
                  calls |-> (calls \o <<entry>>) \o r.calls, cb |-> NoClosure]
            ELSE ForwardLoop(L, model, i + 1, NextInput(X, r.Y), r.Y, is_train,
                             p, (calls \o <<entry>>) \o r.calls,
                             Append(callbacks, r.cb))

\* chain.py:31-47
forward(L, model, X, is_train, p) ==
    ForwardLoop(L, model, 1, X, X, is_train, p, << >>, << >>)

RECURSIVE backprop(_, _)
RECURSIVE BackLoop(_, _, _, _, _, _)

\* callback(dY): a closure of a composite is its backprop, any other layer's
\* closure appends the layer to the gradient's history
Callback(cl, dY) ==
    IF FuncIsForward(cl.layer) THEN backprop(cl, dY)
    ELSE [dX |-> Append(dY, cl.layer), calls |-> << >>]

\* chain.py:42-45, from the i-th closure of the order cbs on
BackLoop(cl, cbs, i, dY, dX, calls) ==
    IF i > Len(cbs) THEN [dX |-> dX, calls |-> calls]
    ELSE LET r == Callback(cbs[i], dY)
             entry == [owner |-> cl.layer, pass |-> cbs[i].pass,
                       layer |-> cbs[i].layer, dY |-> dY, dX |-> r.dX]
         IN BackLoop(cl, cbs, i + 1, r.dX, r.dX,
                     (calls \o <<entry>>) \o r.calls)

\* chain.py:41-45
backprop(cl, dY) == BackLoop(cl, BackOrder(cl.sub), 1, dY, << >>, << >>)

\* model(X, is_train) on a composite
ForwardCall(m, X, is_train) ==
    /\ m \in ChainIds /\ Exists(m)
    /\ Len(passes) < MaxPasses
    /\ LET r == forward(layers, m, X, is_train, Len(passes) + 1)
       IN passes' = Append(passes, [m |-> m, X |-> X, is_train |-> is_train,
                                    ls |-> layers[m], raised |-> r.raised,
                                    Y |-> r.Y, calls |-> r.calls, cb |-> r.cb])
    /\ UNCHANGED <<ncalls, nchains, layers, dims, lastChain, lastInit, lastBack>>
    /\ UNCHANGED <<lnVars, shimVars>>

\* the closure returned by forward pass p is invoked with gradient dY
BackpropCall(p, dY) ==
    /\ p \in 1..Len(passes)
    /\ passes[p].raised = NoError
    /\ LET r == backprop(passes[p].cb, dY)
       IN lastBack' = [called |-> TRUE, pass |-> p, dY |-> dY,
                       calls |-> r.calls, result |-> r.dX]
    /\ UNCHANGED <<ncalls, nchains, layers, dims, lastChain, lastInit, passes>>
    /\ UNCHANGED <<lnVars, shimVars>>

\* ------------------------------------------------------------------------
\* LayerNorm
\* ------------------------------------------------------------------------
\* Activations and gradients are matrices of a batch of B rows by nO columns.
\* The normalized activations Xhat are real numbers in the program; here they
\* and the gradients are integers, and a matrix is made of rows of a few
\* shapes: a row of Xhat is all ones or alternates in sign, a row of the
\* gradient is all ones or is zero outside its first column (the entries
\* masked by the dropout wrapper are 0).
XhatRows(n) == {[j \in 1..n |-> 1], [j \in 1..n |-> IF j % 2 = 1 THEN 1 ELSE -1]}
GradRows(n) == {[j \in 1..n |-> 1], [j \in 1..n |-> IF j = 1 THEN 1 ELSE 0]}
Matrices(B, rows) == [1..B -> rows]

RECURSIVE SumRows(_, _, _)
\* M.sum(axis=0)[j] over the first B rows
SumRows(M, B, j) == IF B = 0 THEN 0 ELSE M[B][j] + SumRows(M, B - 1, j)

Rows(M) == Cardinality(DOMAIN M)

\* gradient__BI * input__BI, elementwise
Times(A, M) == [r \in DOMAIN A |-> [j \in DOMAIN A[r] |-> A[r][j] * M[r][j]]]

\* layernorm.py:30-33: the width taken at construction; kwnO is None when
\* the keyword is not given, childnO is Absent when the child has no such
\* attribute; without either the attribute stays unset
ResolveWidth(kwnO, childnO) ==
    IF kwnO # None THEN kwnO
    ELSE IF childnO # Absent /\ childnO # None THEN childnO
    ELSE None

\* layernorm.py:16-19: G is allocated with shape (nO,) filled with ones, b
\* and the gradients with zeros
NewParams(nO) ==
    [nO |-> nO,
     G |-> [j \in 1..nO |-> 1], b |-> [j \in 1..nO |-> 0],
     d_G |-> [j \in 1..nO |-> 0], d_b |-> [j \in 1..nO |-> 0],
     steps |-> 0]

\* the optimizer called as sgd(weights, gradient, key=id): one step on the
\* layer's buffers in place, after which the gradients are zero again
OptimizerStep(l) ==
    [l EXCEPT !.G = [j \in 1..l.nO |-> l.G[j] - l.d_G[j]],
              !.b = [j \in 1..l.nO |-> l.b[j] - l.d_b[j]],
              !.d_G = [j \in 1..l.nO |-> 0],
              !.d_b = [j \in 1..l.nO |-> 0],
              !.steps = l.steps + 1]

\* layernorm.py:65-67: the gradients are accumulated over the batch axis
AccumulateNothing(l, gradient, input) == l
Accumulate(l, gradient, input) ==
    [l EXCEPT !.d_b = [j \in 1..l.nO |->
                          l.d_b[j] + SumRows(gradient, Rows(gradient), j)],
              !.d_G = [j \in 1..l.nO |->
                          l.d_G[j] + SumRows(Times(gradient, input),
                                             Rows(gradient), j)]]

\* layernorm.py:64-70: the closure of _begin_update_scale_shift; sgd is
\* FALSE when no optimizer is passed
BackpropRescale(l, gradient, input, sgd) ==
    LET l1 == Accumulate(l, gradient, input)
    IN IF sgd THEN OptimizerStep(l1) ELSE l1

NoPass == [Xhat |-> << >>, dy |-> << >>, sgd |-> FALSE, pre |-> << >>]

InitLayerNorm ==
    /\ ln = [nO |-> None, kwnO |-> None, childnO |-> Absent, updates |-> 0,
             params |-> NewParams(0)]
    /\ lnpc = "unbuilt"
    /\ lnpass = NoPass

\* layernorm.py:26-34: LayerNorm(child, **kwargs)
LayerNormNew(kwnO, childnO) ==
    /\ lnpc = "unbuilt"
    /\ LET nO == ResolveWidth(kwnO, childnO)
       IN ln' = [nO |-> nO, kwnO |-> kwnO, childnO |-> childnO, updates |-> 0,
                 params |-> NewParams(IF nO = None THEN 0 ELSE nO)]
    /\ lnpc' = "built"
    /\ UNCHANGED lnpass
    /\ UNCHANGED <<chainVars, shimVars>>

\* layernorm.py:43-61: begin_update; the parameters have shape (obj.nO,), so
\* reading G fails when the width was never set
BeginUpdate(Xhat) ==
    /\ lnpc \in {"built", "returned", "child_raised"}
    /\ ln.updates < MaxUpdates
    /\ IF ln.nO = None
       THEN /\ lnpc' = "attribute_error"
            /\ UNCHANGED <<ln, lnpass>>
       ELSE /\ Xhat \in Matrices(Rows(Xhat), XhatRows(ln.nO))
            /\ lnpc' = "forward_done"
            /\ lnpass' = [NoPass EXCEPT !.Xhat = Xhat]
            /\ UNCHANGED ln
    /\ UNCHANGED <<chainVars, shimVars>>

\* layernorm.py:51-56: finish_update up to the call of backprop_child; the
\* affine backward step runs first, the moments are local values
FinishUpdateRescale(dy, sgd) ==
    /\ lnpc = "forward_done"
    /\ dy \in Matrices(Rows(lnpass.Xhat), GradRows(ln.nO))
    /\ ln' = [ln EXCEPT !.params = BackpropRescale(@, dy, lnpass.Xhat, sgd),
                        !.updates = @ + 1]
    /\ lnpass' = [lnpass EXCEPT !.dy = dy, !.sgd = sgd, !.pre = ln.params]
    /\ lnpc' = "in_child"
    /\ UNCHANGED <<chainVars, shimVars>>

\* layernorm.py:57: backprop_child(d_xhat, sgd) returns, or raises and the
\* error leaves finish_update
BackpropChild(fails) ==
    /\ lnpc = "in_child"
    /\ lnpc' = IF fails THEN "child_raised" ELSE "returned"
    /\ UNCHANGED <<ln, lnpass>>
    /\ UNCHANGED <<chainVars, shimVars>>

NextLN ==
    \/ \E kwnO \in {None} \cup Widths, childnO \in DimValues :
          LayerNormNew(kwnO, childnO)
    \/ \E B \in 1..MaxBatch : \E Xhat \in Matrices(B, XhatRows(ln.nO)) :
          BeginUpdate(Xhat)
    \/ \E sgd \in BOOLEAN :
          \E dy \in Matrices(Rows(lnpass.Xhat), GradRows(ln.nO)) :
              FinishUpdateRescale(dy, sgd)
    \/ \E fails \in BOOLEAN : BackpropChild(fails)

\* ------------------------------------------------------------------------
\* TensorFlowShim
\* ------------------------------------------------------------------------
\* A shim s wraps the keras model shims[s].model (None when it holds none);
\* the k-th shim is constructed around the k-th keras model.  A model built
\* from its architecture alone has freshly initialized weights.
ShimIds == 1..MaxShims
FreshWeights == 0
Architectures == {"dense", "conv"}

NoShimCall == [op |-> "none", self |-> 0, raised |-> NoError, result |-> 0,
               modelBefore |-> 0, weightsBefore |-> 0,
               modelAfter |-> 0, weightsAfter |-> 0]

InitShims(archs) ==
    /\ nshims = 1
    /\ shims = [s \in ShimIds |-> [model |-> IF s = 1 THEN 1 ELSE None,
                                   grads |-> None]]
    /\ \E a \in archs :
          keras = [k \in ShimIds |-> [weights |-> FreshWeights,
                                      config |-> IF k = 1 THEN a ELSE ""]]
    /\ lastShim = NoShimCall

\* tensorflow.py:120-126: the weights of the shim's own model, by name
create_state_dict(K, m) == K[m].weights

\* tensorflow.py:108-117: set the model's weights from a state dict, which is
\* the model's own when none is given
load_weights_from_state_dict(K, m, state_dict) ==
    [K EXCEPT ![m].weights = IF state_dict = None
                             THEN create_state_dict(K, m) ELSE state_dict]

\* the call without a state dict
NoStateDict == None

\* tensorflow.py:56-60
ShimPredict(s) ==
    /\ s <= nshims
    /\ lastShim' = [NoShimCall EXCEPT
                      !.op = "predict", !.self = s,
                      !.raised = IF shims[s].model = None
                                 THEN "AttributeError" ELSE NoError,
                      !.modelBefore = shims[s].model,
                      !.modelAfter = shims[s].model]
    /\ UNCHANGED <<nshims, shims, keras>>
    /\ UNCHANGED <<chainVars, lnVars>>

\* tensorflow.py:62-85: begin_update and the closure backprop it returns,
\* which keeps the gradients g of the trainable variables on the shim
ShimBackprop(s, g) ==
    /\ s <= nshims
    /\ IF shims[s].model = None
       THEN /\ lastShim' = [NoShimCall EXCEPT !.op = "begin_update", !.self = s,
                                              !.raised = "TypeError"]
            /\ UNCHANGED shims
       ELSE /\ lastShim' = [NoShimCall EXCEPT !.op = "begin_update", !.self = s,
                                              !.modelBefore = shims[s].model,
                                              !.modelAfter = shims[s].model]
            /\ shims' = [shims EXCEPT ![s].grads = g]
    /\ UNCHANGED <<nshims, keras>>
    /\ UNCHANGED <<chainVars, lnVars>>

\* tensorflow.py:87-93: the kept gradients are applied to the weights
ShimFinishUpdate(s) ==
    /\ s <= nshims
    /\ IF shims[s].model = None \/ shims[s].grads = None
       THEN /\ lastShim' = [NoShimCall EXCEPT !.op = "finish_update", !.self = s,
                                              !.raised = "AttributeError"]
            /\ UNCHANGED keras
       ELSE /\ keras[shims[s].model].weights + shims[s].grads <= MaxWeight
            /\ keras' = [keras EXCEPT ![shims[s].model].weights =
                                          @ + shims[s].grads]
            /\ lastShim' = [NoShimCall EXCEPT
                              !.op = "finish_update", !.self = s,
                              !.modelBefore = shims[s].model,
                              !.weightsBefore = keras[shims[s].model].weights,
                              !.modelAfter = shims[s].model,
                              !.weightsAfter = keras[shims[s].model].weights
                                               + shims[s].grads]
    /\ UNCHANGED <<nshims, shims>>
    /\ UNCHANGED <<chainVars, lnVars>>

\* tensorflow.py:176-183
ShimCopy(s) ==
    /\ s <= nshims
    /\ IF shims[s].model = None
       THEN \* line 177: None has no to_json
            /\ lastShim' = [NoShimCall EXCEPT !.op = "copy", !.self = s,
                                              !.raised = "AttributeError"]
            /\ UNCHANGED <<nshims, shims, keras>>
       ELSE /\ nshims < MaxShims
            /\ LET copied == nshims + 1
                   model_json_config == keras[shims[s].model].config
                   \* line 178: self._model = None; line 180: deepcopy(self)
                   S1 == [shims EXCEPT ![s].model = None]
                   S2 == [S1 EXCEPT ![copied] = S1[s]]
                   \* line 181: model_from_json builds a new model
                   K1 == [keras EXCEPT ![copied] =
                             [weights |-> FreshWeights,
                              config |-> model_json_config]]
                   S3 == [S2 EXCEPT ![copied].model = copied]
                   \* line 182
                   K2 == load_weights_from_state_dict(K1, copied, NoStateDict)
               IN /\ nshims' = copied
                  /\ shims' = S3
                  /\ keras' = K2
                  /\ lastShim' = [op |-> "copy", self |-> s, raised |-> NoError,
                                  result |-> copied,
                                  modelBefore |-> shims[s].model,
                                  weightsBefore |-> keras[shims[s].model].weights,
                                  modelAfter |-> S3[s].model,
                                  weightsAfter |-> IF S3[s].model = None THEN 0
                                                   ELSE K2[S3[s].model].weights]
    /\ UNCHANGED <<chainVars, lnVars>>

NextShim ==
    \/ \E s \in ShimIds : ShimPredict(s)
    \/ \E s \in ShimIds, g \in 1..MaxWeight : ShimBackprop(s, g)
    \/ \E s \in ShimIds : ShimFinishUpdate(s)
    \/ \E s \in ShimIds : ShimCopy(s)

\* the leaf layers a program starts from: a layer without dimensions (such
\* as MeanPool), a layer whose widths are registered and still unset, or a
\* layer constructed with its widths
LeafDims == {[nI |-> Absent, nO |-> Absent], [nI |-> None, nO |-> None]}
            \cup {[nI |-> w, nO |-> w] : w \in Widths}

\* leaves are interchangeable: inventories are listed up to renaming
LeafOrder(d) == d.nI

InitCommon ==
    /\ InitLayerNorm
    /\ ncalls = 0
    /\ nchains = 0
    /\ layers = [m \in ChainIds |-> << >>]
    /\ lastChain = NoChainCall
    /\ lastInit = NoInitCall
    /\ passes = << >>
    /\ lastBack = NoBackCall

InitDims ==
    /\ InitCommon
    /\ InitShims({"dense"})
    /\ \E ld \in [Leaves -> LeafDims] :
          /\ \A i, j \in Leaves : i < j => LeafOrder(ld[i]) <= LeafOrder(ld[j])
          /\ dims = [m \in Ids |-> IF m \in Leaves THEN ld[m]
                                ELSE [nI |-> None, nO |-> None]]

\* the budget of calls is tested before the argument lists are enumerated
NextDims ==
    \/ ncalls < MaxCalls /\ \E args \in ArgLists : ChainCall(args)
    \/ \E m \in ChainIds, X \in Samples \cup {NoSample},
          Y \in Samples \cup {NoSample} : InitializeCall(m, X, Y)

SpecDims == InitDims /\ [][NextDims]_vars

\* LayerNorm and the shims are exercised next to untouched leaf layers
InitLN ==
    /\ InitCommon
    /\ InitShims({"dense"})
    /\ dims = [m \in Ids |-> [nI |-> None, nO |-> None]]

InitShim ==
    /\ InitCommon
    /\ InitShims(Architectures)
    /\ dims = [m \in Ids |-> [nI |-> None, nO |-> None]]

SpecShim == InitShim /\ [][NextShim]_vars

SpecLN == InitLN /\ [][NextLN]_vars

\* forward and backward passes over composites of layers whose widths are
\* registered and unset
InitRun ==
    /\ InitCommon
    /\ InitShims({"dense"})
    /\ dims = [m \in Ids |-> [nI |-> None, nO |-> None]]

NextRun ==
    \/ ncalls < MaxCalls /\ \E args \in ArgLists : ChainCall(args)
    \/ \E m \in ChainIds, X \in Inputs, is_train \in BOOLEAN :
          ForwardCall(m, X, is_train)
    \/ \E p \in 1..MaxPasses, dY \in Gradients : BackpropCall(p, dY)

SpecRun == InitRun /\ [][NextRun]_vars

\* ------------------------------------------------------------------------
\* Properties of chain()
\* ------------------------------------------------------------------------
\* C1: chain(C, c) with C already a composite returns the same instance C,
\* creates no new composite, leaves C's sublayer list equal to its former
\* list followed by the further layers, and C is not a sublayer of the result.
ChainFlattening ==
    (lastChain.called /\ Len(lastChain.args) > 0
        /\ lastChain.args[1] \in ChainIds) =>
        /\ lastChain.result = lastChain.args[1]
        /\ ~lastChain.created
        /\ layers[lastChain.result] = lastChain.before \o Tail(lastChain.args)
        /\ lastChain.args[1] \notin Range(layers[lastChain.result])

\* a composite of two layers has been extended by a third
ChainFlatteningWitness ==
    /\ lastChain.called
    /\ Len(lastChain.args) = 2
    /\ lastChain.args[1] \in ChainIds
    /\ Len(lastChain.before) = 2
    /\ layers[lastChain.result] = Append(lastChain.before, lastChain.args[2])

\* the calls a forward pass made from the composite it was invoked on
CallsBy(ps) ==
    LET Own(e) == e.caller = ps.m IN SelectSeq(ps.calls, Own)

\* C2: a forward pass of a composite with sublayers l1..ln (n >= 1) calls each
\* sublayer once, in list order, with the flag is_train it was given; l1 gets
\* the composite's input, each next sublayer the output of the one before,
\* and the composite's output is ln's output (for plain layers f, g: g(f(x))).
ForwardInOrder ==
    \A p \in 1..Len(passes) :
        LET ps == passes[p]
            cs == CallsBy(ps)
            n == Len(ps.ls)
        IN n >= 1 =>
            /\ ps.raised = NoError
            /\ Len(cs) = n
            /\ \A k \in 1..n : /\ cs[k].layer = ps.ls[k]
                               /\ cs[k].is_train = ps.is_train
            /\ cs[1].X = ps.X
            /\ \A k \in 1..(n - 1) : cs[k + 1].X = cs[k].Y
            /\ ps.Y = cs[n].Y
            /\ (\A k \in 1..n : ps.ls[k] \in Leaves) => ps.Y = ps.X \o ps.ls

\* a composite of at least two sublayers, one of them a composite, has run
ForwardInOrderWitness ==
    \E p \in 1..Len(passes) :
        /\ Len(passes[p].ls) >= 2
        /\ passes[p].is_train
        /\ \E k \in 1..Len(passes[p].ls) : passes[p].ls[k] \in ChainIds

\* the closures a backward call invoked from the composite's own list
BackCallsBy(m) ==
    LET Own(e) == e.owner = m IN SelectSeq(lastBack.calls, Own)

\* C3: one invocation of the closure returned by a forward pass over l1..ln
\* calls the closure collected from each sublayer once, in the order ln..l1;
\* ln's closure gets the gradient given to the composite, each earlier one the
\* result of the one after it, the result is that of l1's closure, and no
\* closure collected by another forward pass is called.
BackwardInReverse ==
    lastBack.called =>
        LET ps == passes[lastBack.pass]
            cs == BackCallsBy(ps.m)
            n == Len(ps.ls)
        IN /\ Len(cs) = n
           /\ \A k \in 1..n : cs[k].layer = ps.ls[n + 1 - k]
           /\ cs[1].dY = lastBack.dY
           /\ \A k \in 1..(n - 1) : cs[k + 1].dY = cs[k].dX
           /\ lastBack.result = cs[n].dX
           /\ \A k \in 1..Len(lastBack.calls) :
                 lastBack.calls[k].pass = lastBack.pass

\* the closure of one of two forward passes over the same composite of at
\* least two sublayers has been invoked
BackwardInReverseWitness ==
    /\ lastBack.called
    /\ Len(passes) = 2
    /\ passes[1].m = passes[2].m
    /\ passes[1].raised = NoError /\ passes[2].raised = NoError
    /\ Len(passes[lastBack.pass].ls) >= 2

Resolved(v) == v # Absent /\ v # None

\* C4: a composite whose nI is resolved has the nI of its first sublayer, and
\* one whose nO is resolved has the nO of its last sublayer.
DimsMatchEnds ==
    \A m \in ChainIds :
        (Exists(m) /\ Len(layers[m]) > 0) =>
            /\ Resolved(dims[m].nI) => dims[m].nI = dims[layers[m][1]].nI
            /\ Resolved(dims[m].nO) =>
                  dims[m].nO = dims[layers[m][Len(layers[m])]].nO

\* the width the reverse walk has for the sublayer at position i, read off
\* the state initialize() was called in
TargetOf(c, i) ==
    IF i = Len(c.ls)
    THEN IF c.Y # NoSample THEN c.Y[Len(c.Y)]
         ELSE IF Resolved(c.pre[c.m].nO) THEN c.pre[c.m].nO ELSE None
    ELSE IF Resolved(c.pre[c.ls[i + 1]].nI) THEN c.pre[c.ls[i + 1]].nI
         ELSE None

\* the sublayer at position i is visited if no later sublayer stopped the walk
VisitedUnlessAbsent(c, i) ==
    \A j \in (i + 1)..Len(c.ls) : c.pre[c.ls[j]].nI # Absent
VisitedWhileResolved(c, i) ==
    \A j \in (i + 1)..Len(c.ls) : Resolved(c.pre[c.ls[j]].nI)

\* what the walk does to the sublayer at position i
WalkOutcome(c, i, visited) ==
    LET layer == c.ls[i] IN
    /\ c.walked[layer].nI = c.pre[layer].nI
    /\ c.walked[layer].nO =
          IF visited /\ c.pre[layer].nO = None /\ TargetOf(c, i) # None
          THEN TargetOf(c, i) ELSE c.pre[layer].nO

\* C9 as stated: the walk stops at the first sublayer, from the end, that has
\* no nI dimension; every sublayer visited until then whose nO is unset gets
\* the known target width, and a set nO is kept.
WalkStopsAtAbsentNI ==
    lastInit.walk =>
        \A i \in 1..Len(lastInit.ls) :
            WalkOutcome(lastInit, i, VisitedUnlessAbsent(lastInit, i))

\* C9 amended: the walk stops at the first sublayer, from the end, whose nI is
\* absent or not yet set; every sublayer visited until then whose nO is unset
\* gets the known target width (get_width(Y), else the composite's nO, for the
\* last one, the next sublayer's nI for the others), and a set nO is kept.
WalkStopsAtUnresolvedNI ==
    lastInit.walk =>
        \A i \in 1..Len(lastInit.ls) :
            WalkOutcome(lastInit, i, VisitedWhileResolved(lastInit, i))

\* the walk gave an earlier sublayer the nI of the sublayer after it, kept a
\* set nO that differs from the target, and stopped at an unset nI
WalkStopsAtUnresolvedNIWitness ==
    /\ lastInit.walk
    /\ Len(lastInit.ls) = 3
    /\ lastInit.pre[lastInit.ls[1]].nI = None
    /\ lastInit.pre[lastInit.ls[2]].nO = None
    /\ lastInit.walked[lastInit.ls[2]].nO = lastInit.pre[lastInit.ls[3]].nI
    /\ Resolved(lastInit.pre[lastInit.ls[3]].nO)
    /\ lastInit.Y # NoSample
    /\ lastInit.pre[lastInit.ls[3]].nO # lastInit.Y[2]

\* ------------------------------------------------------------------------
\* Properties of LayerNorm
\* ------------------------------------------------------------------------
\* C6: constructing a LayerNorm without the keyword nO around a child that has
\* no nO, or an unset one, fails; construction never completes leaving the
\* LayerNorm without a width.
WidthlessConstructionFails ==
    (ln.kwnO = None /\ ln.childnO \in {Absent, None}) =>
        lnpc \in {"unbuilt", "construction_raised"}

\* the increment of d_b[j] and of d_G[j] of the pending backward pass
GradSum(j) ==
    LET inc[r \in 0..Rows(lnpass.dy)] ==
            IF r = 0 THEN 0 ELSE inc[r - 1] + lnpass.dy[r][j]
    IN inc[Rows(lnpass.dy)]
GradXhatSum(j) ==
    LET inc[r \in 0..Rows(lnpass.dy)] ==
            IF r = 0 THEN 0
            ELSE inc[r - 1] + lnpass.dy[r][j] * lnpass.Xhat[r][j]
    IN inc[Rows(lnpass.dy)]

\* C7: when backprop_child is called, and still when it has raised, d_b and
\* d_G hold the increments of this pass (the batch sums of the gradient and of
\* gradient * Xhat), and the optimizer, if one was passed, has already made
\* its step on the accumulated gradients.
RescaleBeforeChild ==
    lnpc \in {"in_child", "child_raised"} =>
        \A j \in 1..ln.nO :
            IF lnpass.sgd
            THEN /\ ln.params.steps = lnpass.pre.steps + 1
                 /\ ln.params.G[j] =
                       lnpass.pre.G[j] - (lnpass.pre.d_G[j] + GradXhatSum(j))
                 /\ ln.params.b[j] =
                       lnpass.pre.b[j] - (lnpass.pre.d_b[j] + GradSum(j))
            ELSE /\ ln.params.steps = lnpass.pre.steps
                 /\ ln.params.d_b[j] = lnpass.pre.d_b[j] + GradSum(j)
                 /\ ln.params.d_G[j] = lnpass.pre.d_G[j] + GradXhatSum(j)
                 /\ ln.params.G[j] = lnpass.pre.G[j]
                 /\ ln.params.b[j] = lnpass.pre.b[j]

\* backprop_child has raised after a pass over a batch of two rows, without
\* optimizer, that changed both accumulators
RescaleBeforeChildWitness ==
    /\ lnpc = "child_raised"
    /\ ~lnpass.sgd
    /\ Rows(lnpass.dy) = 2
    /\ \E j \in 1..ln.nO : /\ ln.params.d_b[j] # lnpass.pre.d_b[j]
                           /\ ln.params.d_G[j] # lnpass.pre.d_G[j]

\* ------------------------------------------------------------------------
\* Properties of TensorFlowShim
\* ------------------------------------------------------------------------
\* C10: copy() leaves the shim it is called on unchanged: it still holds the
\* same wrapped model with the same weights, and the copy is another shim.
CopyKeepsOriginal ==
    (lastShim.op = "copy" /\ lastShim.raised = NoError) =>
        /\ lastShim.modelAfter = lastShim.modelBefore
        /\ lastShim.weightsAfter = lastShim.weightsBefore
        /\ lastShim.result # lastShim.self

====
